---- MODULE Spec2Model ----
(***************************************************************************)
(* Model of src/core/OpOptimizers.cpp: the peephole optimizer of an op     *)
(* chain (RemoveNoOps, RemoveInverseOps, OptimizeOpVec).                   *)
(*                                                                         *)
(* The chain OpRcPtrVec is a vector of shared pointers.  A pointer is an   *)
(* identifier 1..n; heap maps it to the (immutable) operation it points    *)
(* to.  Indices and iterators are the 0-based offsets of the code.         *)
(***************************************************************************)
EXTENDS Integers, Sequences, FiniteSets, TLC

VARIABLES
    heap,              \* pointer -> operation object (never mutated)
    pred,              \* how the Op predicates of this run answer
    debug,             \* IsDebugLoggingEnabled()
    ops,               \* the OpRcPtrVec being rewritten (sequence of pointers)
    pc,                \* position of the (single) thread of control
    ret,               \* caller of the running pass: "OptimizeOpVec" or "test"
    iter,              \* RemoveNoOps: iterator, as an offset from begin()
    firstindex,        \* RemoveInverseOps: the signed cursor
    count,             \* local count of the running pass
    noops,             \* OptimizeOpVec: result of RemoveNoOps of this round
    inverseops,        \* OptimizeOpVec: result of RemoveInverseOps of this round
    originalSize,      \* OptimizeOpVec locals
    finalSize,
    total_noops,
    total_inverseops,
    passes,
    log,               \* the LogDebug calls made, in order
    entry,             \* history: the chain on entry of the running top-level call
    rounds,            \* history: rounds started by the running OptimizeOpVec call
    exit,              \* history: how the scheduler loop of the last call ended
    prev,              \* history: exit of the OptimizeOpVec call before this one
    calls,             \* history: number of top-level calls made so far
    plan               \* the calls the caller has still to make, in order

vars == << heap, pred, debug, ops, pc, ret, iter, firstindex, count, noops,
           inverseops, originalSize, finalSize, total_noops, total_inverseops,
           passes, log, entry, rounds, exit, prev, calls, plan >>

----------------------------------------------------------------------------
(* Bounds of the model *)

MaxLen == 5          \* longest input chain, lawful operations
MaxLenTable == 5     \* longest input chain, fixed predicates given as tables
MaxLenAny == 9       \* longest input chain, arbitrarily answering predicates
MaxLenLive == 3      \* longest input chain of lawful operations, liveness
MaxCalls == 2        \* OptimizeOpVec calls in a row on the same chain
SizeBits == 16       \* width of OpRcPtrVec::size_type in the model
IntBits == 8         \* width of int in the model

(* Program constant *)
MAX_OPTIMIZATION_PASSES == 8

----------------------------------------------------------------------------
(* Operations.  An operation is a type and the transform it applies; the   *)
(* transform is a permutation of 1..4, so that chains compose in a         *)
(* non-commutative group.                                                  *)

PermDom == 1..4
IdPerm == << 1, 2, 3, 4 >>
ExpPerm == << 2, 3, 1, 4 >>
LogPerm == << 2, 3, 4, 1 >>

\* p then q
Compose(p, q) == [x \in PermDom |-> q[p[x]]]

Inverse(p) == [y \in PermDom |-> CHOOSE x \in PermDom : p[x] = y]

Op(t, g) == [type |-> t, g |-> g]

ExponentFwd == Op("Exponent", ExpPerm)
ExponentInv == Op("Exponent", Inverse(ExpPerm))
LogFwd == Op("Log", LogPerm)
LogInv == Op("Log", Inverse(LogPerm))
ExponentOne == Op("Exponent", IdPerm)
MatrixInv == Op("Matrix", Inverse(ExpPerm))

AllOps == { ExponentFwd, ExponentInv, LogFwd, LogInv, ExponentOne, MatrixInv }

\* Op::isNoOp, Op::isSameType, Op::isInverse of a lawful operation
isNoOp(a) == a.g = IdPerm
isSameType(a, b) == a.type = b.type
isInverse(a, b) == Compose(a.g, b.g) = IdPerm

\* The predicates of the operations of a run.  pred.kind says how they answer:
\*   "group"  lawfully, as above;
\*   "table"  as fixed functions of the operations that need not be lawful:
\*            pred.noop is the set of no-ops, pred.inv the inverse relation
\*            (any relation: asymmetric, empty, always true);
\*   "any"    arbitrarily, and differently on each call.
Lawful == [kind |-> "group", noop |-> {}, inv |-> {}]
Arbitrary == [kind |-> "any", noop |-> {}, inv |-> {}]
TableOps == { ExponentFwd, ExponentInv }
Tables == { [kind |-> "table", noop |-> n, inv |-> r] :
              n \in SUBSET TableOps, r \in SUBSET (TableOps \X TableOps) }

\* what the predicates of a run with fixed predicates answer
NoOp(a) == IF pred.kind = "table" THEN a \in pred.noop ELSE isNoOp(a)
SameType(a, b) == isSameType(a, b)
Inv(a, b) == IF pred.kind = "table" THEN << a, b >> \in pred.inv ELSE isInverse(a, b)

\* The answers a call of the predicate can give
isNoOpAns(a) == IF pred.kind = "any" THEN BOOLEAN ELSE { NoOp(a) }
isSameTypeAns(a, b) == IF pred.kind = "any" THEN BOOLEAN ELSE { SameType(a, b) }
isInverseAns(a, b) == IF pred.kind = "any" THEN BOOLEAN ELSE { Inv(a, b) }

----------------------------------------------------------------------------
(* Helpers; locals of a pass that has returned are out of scope and read 0 *)

\* (the elements after the range are moved down, the vector is not shortened)
EraseKeepSize(s, i, j) ==
    [k \in 1..Len(s) |-> IF k > i /\ k + (j - i) <= Len(s) THEN s[k + (j - i)]
                                                            ELSE s[k]]

\* (the two ends of the range taken for each other)
EraseSwapped(s, i, j) == SubSeq(s, 1, j) \o SubSeq(s, i + 1, Len(s))

\* vector::erase of the offsets [i, j)
Erase(s, i, j) == SubSeq(s, 1, i) \o SubSeq(s, j + 1, Len(s))

\* opVec.size()-1 in size_type arithmetic
SizeMinusOne(n) == (n - 1 + 2^SizeBits) % (2^SizeBits)

\* (no conversion to a signed int: the comparison is made unsigned)
ToIntUnsigned(u) == u

\* static_cast<int>(u)
ToInt(u) == LET m == u % (2^IntBits)
            IN  IF m >= 2^(IntBits - 1) THEN m - 2^IntBits ELSE m

Max(a, b) == IF a >= b THEN a ELSE b

\* the net transform of a chain of pointers: the ordered composition
RECURSIVE Net(_, _)
Net(h, s) == IF s = << >> THEN IdPerm
             ELSE Compose(h[Head(s)].g, Net(h, Tail(s)))

Append2(s, cond, m) == IF cond THEN Append(s, m) ELSE s

----------------------------------------------------------------------------
(* Initial states *)

Start(h, p, d, pl) ==
    /\ heap = h
    /\ pred = p
    /\ debug = d
    /\ ops = [i \in 1..Len(h) |-> i]
    /\ pc = "top"
    /\ ret = "none"
    /\ iter = 0
    /\ firstindex = 0
    /\ count = 0
    /\ noops = 0
    /\ inverseops = 0
    /\ originalSize = 0
    /\ finalSize = 0
    /\ total_noops = 0
    /\ total_inverseops = 0
    /\ passes = 0
    /\ log = << >>
    /\ entry = [i \in 1..Len(h) |-> i]
    /\ rounds = 0
    /\ exit = "none"
    /\ prev = "none"
    /\ calls = 0
    /\ plan = pl

\* what a caller does with a chain: the unit test calls RemoveInverseOps
\* once; a client optimizes, and may optimize the result again
Plans == { << "RemoveInverseOps" >>, [i \in 1..MaxCalls |-> "OptimizeOpVec"] }

\* any chain of lawful operations (logging does not touch the chain: it is
\* left off here, and is either on or off in InitAny)
Init ==
    \E n \in 0..MaxLen : \E h \in [1..n -> AllOps] : \E pl \in Plans :
        Start(h, Lawful, FALSE, pl)

\* operations whose predicates are fixed functions, lawful or not
InitTable ==
    \E n \in 0..MaxLenTable : \E h \in [1..n -> TableOps] :
    \E t \in Tables : \E pl \in Plans :
        Start(h, t, FALSE, pl)

\* operations whose predicates answer arbitrarily on every call
InitAny ==
    \E n \in 0..MaxLenAny : \E d \in BOOLEAN :
    \E pl \in { << "RemoveInverseOps" >>, << "OptimizeOpVec" >> } :
        Start([i \in 1..n |-> ExponentFwd], Arbitrary, d, pl)

----------------------------------------------------------------------------
(* OptimizeOpVec *)

\* (the early return for an empty chain left out)
CallOptimizeOpVecNoEmptyCheck ==
    /\ pc = "top"
    /\ plan # << >>
    /\ Head(plan) = "OptimizeOpVec"
    /\ plan' = Tail(plan)
    /\ calls' = calls + 1
    /\ entry' = ops
    /\ prev' = exit
    /\ rounds' = 0
    /\ pc' = "loop"
    /\ exit' = "none"
    /\ log' = IF debug THEN log \o << "begin", "chain" >> ELSE log
    /\ originalSize' = Len(ops)
    /\ total_noops' = 0
    /\ total_inverseops' = 0
    /\ passes' = 0
    /\ ret' = "none"
    /\ UNCHANGED << heap, pred, debug, ops, iter, firstindex, count, noops,
                    inverseops, finalSize >>

\* lines 146-160: entry, the empty-chain return, the opening log, the locals
CallOptimizeOpVec ==
    /\ pc = "top"
    /\ plan # << >>
    /\ Head(plan) = "OptimizeOpVec"
    /\ plan' = Tail(plan)
    /\ calls' = calls + 1
    /\ entry' = ops
    /\ prev' = exit
    /\ rounds' = 0
    /\ IF ops = << >>
       THEN /\ pc' = "top"
            /\ exit' = "empty"
            /\ UNCHANGED << log, originalSize, total_noops, total_inverseops,
                            passes >>
       ELSE /\ pc' = "loop"
            /\ exit' = "none"
            /\ log' = IF debug THEN log \o << "begin", "chain" >> ELSE log
            /\ originalSize' = Len(ops)
            /\ total_noops' = 0
            /\ total_inverseops' = 0
            /\ passes' = 0
    /\ ret' = "none"
    /\ UNCHANGED << heap, pred, debug, ops, iter, firstindex, count, noops,
                    inverseops, finalSize >>

\* line 162: the loop test; line 164: the call of RemoveNoOps
LoopTest ==
    /\ pc = "loop"
    /\ IF passes <= MAX_OPTIMIZATION_PASSES
       THEN /\ pc' = "RemoveNoOps"
            /\ ret' = "OptimizeOpVec"
            /\ count' = 0
            /\ iter' = 0
            /\ rounds' = rounds + 1
            /\ UNCHANGED exit
       ELSE /\ pc' = "finish"
            /\ exit' = "bound"
            /\ UNCHANGED << ret, count, iter, rounds >>
    /\ UNCHANGED << heap, pred, debug, ops, firstindex, noops, inverseops,
                    originalSize, finalSize, total_noops, total_inverseops,
                    passes, log, entry, prev, calls, plan >>

\* (++iter written for ++count in the erase branch)
RemoveNoOpsStepTypo ==
    /\ pc = "RemoveNoOps"
    /\ iter # Len(ops)
    /\ \E b \in isNoOpAns(heap[ops[iter + 1]]) :
         IF b
         THEN /\ ops' = Erase(ops, iter, iter + 1)
              /\ iter' = IF iter + 1 <= Len(ops) - 1 THEN iter + 1 ELSE Len(ops) - 1
              /\ UNCHANGED count
         ELSE /\ iter' = iter + 1
              /\ UNCHANGED << ops, count >>
    /\ UNCHANGED << heap, pred, debug, pc, ret, firstindex, noops, inverseops,
                    originalSize, finalSize, total_noops, total_inverseops,
                    passes, log, entry, rounds, exit, prev, calls, plan >>

\* (the iterator is advanced after an erase too: the next element is skipped)
RemoveNoOpsStepSkip ==
    /\ pc = "RemoveNoOps"
    /\ iter # Len(ops)
    /\ \E b \in isNoOpAns(heap[ops[iter + 1]]) :
         IF b
         THEN /\ ops' = Erase(ops, iter, iter + 1)
              /\ count' = count + 1
              /\ iter' = IF iter + 1 <= Len(ops) - 1 THEN iter + 1 ELSE Len(ops) - 1
         ELSE /\ iter' = iter + 1
              /\ UNCHANGED << ops, count >>
    /\ UNCHANGED << heap, pred, debug, pc, ret, firstindex, noops, inverseops,
                    originalSize, finalSize, total_noops, total_inverseops,
                    passes, log, entry, rounds, exit, prev, calls, plan >>

\* lines 47-58: one iteration of the RemoveNoOps loop
RemoveNoOpsStep ==
    /\ pc = "RemoveNoOps"
    /\ iter # Len(ops)
    /\ \E b \in isNoOpAns(heap[ops[iter + 1]]) :
         IF b
         THEN /\ ops' = Erase(ops, iter, iter + 1)
              /\ count' = count + 1
              /\ iter' = iter
         ELSE /\ iter' = iter + 1
              /\ UNCHANGED << ops, count >>
    /\ UNCHANGED << heap, pred, debug, pc, ret, firstindex, noops, inverseops,
                    originalSize, finalSize, total_noops, total_inverseops,
                    passes, log, entry, rounds, exit, prev, calls, plan >>

\* lines 47, 60: RemoveNoOps returns; line 165: the call of RemoveInverseOps
RemoveNoOpsReturn ==
    /\ pc = "RemoveNoOps"
    /\ iter = Len(ops)
    /\ noops' = count
    /\ pc' = "RemoveInverseOps"
    /\ count' = 0
    /\ iter' = 0
    /\ firstindex' = 0
    /\ UNCHANGED << heap, pred, debug, ops, ret, inverseops,
                    originalSize, finalSize, total_noops, total_inverseops,
                    passes, log, entry, rounds, exit, prev, calls, plan >>

\* (the guard with an off-by-one bound: the last pair is never examined)
InverseGuardShort == firstindex < ToInt(SizeMinusOne(Len(ops))) - 1

\* line 68: the loop guard of RemoveInverseOps
InverseGuard == firstindex < ToInt(SizeMinusOne(Len(ops)))

\* (|| written for &&)
CancelsOr(s, v) == s \/ v

\* (isSameType left out of the test)
CancelsTypeBlind(s, v) == v

\* line 94: the pair is removed when it is same-type and inverse
Cancels(s, v) == s /\ v

\* (the cursor is left where it is after a removal)
BackstepStay(f) == f

\* (the cursor is advanced after a removal, as after a comparison)
BackstepAdvance(f) == f + 1

\* (the clamp to 0 left out)
BackstepNoClamp(f) == f - 1

\* line 100: the cursor after a removal
Backstep(f) == Max(0, f - 1)

\* (++firstindex forgotten)
AdvanceStuck(f) == f

\* line 104: the cursor after a pair that stays
Advance(f) == f + 1

\* lines 68-105: one iteration of the RemoveInverseOps loop
RemoveInverseOpsStep ==
    /\ pc = "RemoveInverseOps"
    /\ InverseGuard
    /\ LET first == heap[ops[firstindex + 1]]
           second == heap[ops[firstindex + 2]]
       IN  \E s \in isSameTypeAns(first, second) :
           \E v \in isInverseAns(first, second) :
             IF Cancels(s, v)
             THEN /\ ops' = Erase(ops, firstindex, firstindex + 2)
                  /\ count' = count + 1
                  /\ firstindex' = Backstep(firstindex)
             ELSE /\ firstindex' = Advance(firstindex)
                  /\ UNCHANGED << ops, count >>
    /\ UNCHANGED << heap, pred, debug, pc, ret, iter, noops, inverseops,
                    originalSize, finalSize, total_noops, total_inverseops,
                    passes, log, entry, rounds, exit, prev, calls, plan >>

\* lines 68, 108: RemoveInverseOps returns, to OptimizeOpVec or to the test
RemoveInverseOpsReturn ==
    /\ pc = "RemoveInverseOps"
    /\ ~InverseGuard
    /\ inverseops' = count
    /\ count' = 0
    /\ firstindex' = 0
    /\ pc' = IF ret = "OptimizeOpVec" THEN "roundend" ELSE "top"
    /\ UNCHANGED << heap, pred, debug, ops, ret, iter, noops,
                    originalSize, finalSize, total_noops, total_inverseops,
                    passes, log, entry, rounds, exit, prev, calls, plan >>

\* (|| written for && in the test for no progress)
RoundEndOr ==
    /\ pc = "roundend"
    /\ IF noops = 0 \/ inverseops = 0
       THEN /\ pc' = "finish"
            /\ exit' = "converged"
            /\ UNCHANGED << total_noops, total_inverseops, passes >>
       ELSE /\ pc' = "loop"
            /\ total_noops' = total_noops + noops
            /\ total_inverseops' = total_inverseops + inverseops
            /\ passes' = passes + 1
            /\ UNCHANGED exit
    /\ UNCHANGED << heap, pred, debug, ops, ret, iter, firstindex, count, noops,
                    inverseops, originalSize, finalSize, log, entry, rounds,
                    prev, calls, plan >>

\* lines 166-175: the end of a round
RoundEnd ==
    /\ pc = "roundend"
    /\ IF noops = 0 /\ inverseops = 0
       THEN /\ pc' = "finish"
            /\ exit' = "converged"
            /\ UNCHANGED << total_noops, total_inverseops, passes >>
       ELSE /\ pc' = "loop"
            /\ total_noops' = total_noops + noops
            /\ total_inverseops' = total_inverseops + inverseops
            /\ passes' = passes + 1
            /\ UNCHANGED exit
    /\ UNCHANGED << heap, pred, debug, ops, ret, iter, firstindex, count, noops,
                    inverseops, originalSize, finalSize, log, entry, rounds,
                    prev, calls, plan >>

\* lines 178-202: the diagnostics after the loop, and the return
Finish ==
    /\ pc = "finish"
    /\ finalSize' = Len(ops)
    /\ log' = Append2(Append2(log, passes = MAX_OPTIMIZATION_PASSES, "maxpasses"),
                      debug, "summary")
    /\ pc' = "top"
    /\ ret' = "none"
    /\ UNCHANGED << heap, pred, debug, ops, iter, firstindex, count, noops,
                    inverseops, originalSize, total_noops, total_inverseops,
                    passes, entry, rounds, exit, prev, calls, plan >>

----------------------------------------------------------------------------
(* The unit test calls RemoveInverseOps on its own (lines 239, 251) *)

CallRemoveInverseOps ==
    /\ pc = "top"
    /\ plan # << >>
    /\ Head(plan) = "RemoveInverseOps"
    /\ plan' = Tail(plan)
    /\ calls' = calls + 1
    /\ entry' = ops
    /\ pc' = "RemoveInverseOps"
    /\ ret' = "test"
    /\ count' = 0
    /\ firstindex' = 0
    /\ UNCHANGED << heap, pred, debug, ops, iter, noops, inverseops,
                    originalSize, finalSize, total_noops, total_inverseops,
                    passes, log, rounds, exit, prev >>

----------------------------------------------------------------------------

Next ==
    \/ CallOptimizeOpVec
    \/ LoopTest
    \/ RemoveNoOpsStep
    \/ RemoveNoOpsReturn
    \/ RemoveInverseOpsStep
    \/ RemoveInverseOpsReturn
    \/ RoundEnd
    \/ Finish
    \/ CallRemoveInverseOps

Spec == Init /\ [][Next]_vars

SpecTable == InitTable /\ [][Next]_vars

\* every kind of fixed predicates
InitFixed == Init \/ InitTable

SpecFixed == InitFixed /\ [][Next]_vars

SpecAny == InitAny /\ [][Next]_vars

\* both kinds of operations (short chains of lawful ones); the program is one
\* sequential thread, which always takes its next step
InitLive ==
    \/ \E n \in 0..MaxLenAny :
       \E pl \in { << "RemoveInverseOps" >>, << "OptimizeOpVec" >> } :
           Start([i \in 1..n |-> ExponentFwd], Arbitrary, FALSE, pl)
    \/ \E n \in 0..MaxLenLive : \E h \in [1..n -> AllOps] : \E pl \in Plans :
           Start(h, Lawful, FALSE, pl)

FairSpec == InitLive /\ [][Next]_vars /\ WF_vars(Next)


----------------------------------------------------------------------------
(* Properties *)

Returned == pc = "top" /\ calls >= 1

Logged(m) == \E i \in 1..Len(log) : log[i] = m

\* s is a subsequence of t (the pointers of a chain are distinct)
RECURSIVE IsSubSeq(_, _)
IsSubSeq(s, t) ==
    IF s = << >> THEN TRUE
    ELSE IF t = << >> THEN FALSE
    ELSE IF Head(s) = Head(t) THEN IsSubSeq(Tail(s), Tail(t))
    ELSE IsSubSeq(s, Tail(t))

\* a chain A1..An An'..A1'
Nested(h) ==
    /\ Len(h) % 2 = 0
    /\ \A i \in 1..(Len(h) \div 2) :
          /\ isSameType(h[i], h[Len(h) + 1 - i])
          /\ isInverse(h[i], h[Len(h) + 1 - i])

ScenarioA == << ExponentFwd, LogFwd, LogInv, ExponentInv >>
ScenarioB == << ExponentFwd, ExponentInv, LogInv, LogFwd, ExponentFwd >>

\* C1: with lawful operations (a group), the ordered composition of the chain
\* is, after every erase and at the return of the call, the composition of
\* the chain the call was given.
NetTransformPreserved == Net(heap, ops) = Net(heap, entry)

\* an OptimizeOpVec call that erased no-ops and inverse pairs, and left a
\* chain that is not the identity
NetTransformWitness ==
    /\ Returned
    /\ exit = "converged"
    /\ total_noops > 0
    /\ total_inverseops > 0
    /\ Net(heap, ops) # IdPerm

\* C2: every call, of OptimizeOpVec or of RemoveInverseOps alone, returns,
\* however the predicates answer.
Terminates == (pc # "top") ~> (pc = "top")

\* a call that returned after the scheduler loop ran out of passes
TerminatesWitness == Returned /\ exit = "bound" /\ ops = << >>

\* C3: one OptimizeOpVec call executes at most MAX_OPTIMIZATION_PASSES rounds.
AtMostMaxRounds == rounds <= MAX_OPTIMIZATION_PASSES

\* C4: when the scheduler loop ends because the passes ran out, the
\* "max number of passes" diagnostic has been logged when the call returns.
BoundExitIsLogged == (Returned /\ exit = "bound") => Logged("maxpasses")

\* C5: with fixed predicates, when a RemoveInverseOps call has returned no
\* adjacent pair of the chain is same-type and inverse.
NoInversePairLeft ==
    (pc = "roundend" \/ (Returned /\ ret = "test")) =>
        \A i \in 1..(Len(ops) - 1) :
            ~(/\ SameType(heap[ops[i]], heap[ops[i + 1]])
              /\ Inv(heap[ops[i]], heap[ops[i + 1]]))

\* a single call that removed a pair exposed by an earlier removal, and left
\* operations behind
NoInversePairLeftWitness ==
    /\ Returned
    /\ ret = "test"
    /\ inverseops >= 2
    /\ Len(ops) >= 1

\* C6: the chain is at every point a subsequence of the chain the call was
\* given: original entries, in their original order.
OrderPreserved == IsSubSeq(ops, entry)

\* a returned call that removed from the middle and kept both ends
OrderPreservedWitness ==
    /\ Returned
    /\ Len(ops) >= 2
    /\ Len(ops) < Len(entry)
    /\ ops[1] = entry[1]
    /\ ops[Len(ops)] = entry[Len(entry)]

\* C7: with fixed predicates, an OptimizeOpVec call on the result of a call
\* that converged removes nothing: the chain stays as given and both passes
\* of its only round count 0 (an empty chain returns before any round).
SecondCallRemovesNothing ==
    (calls >= 2 /\ prev = "converged") =>
        /\ ops = entry
        /\ count = 0
        /\ rounds <= 1
        /\ (rounds = 1 /\ pc \in { "roundend", "finish", "top" } =>
               noops = 0 /\ inverseops = 0 /\ passes = 0)

\* the second call has returned, on a non-empty chain that the first call
\* shortened
SecondCallWitness ==
    /\ pc = "top"
    /\ calls = 2
    /\ prev = "converged"
    /\ exit = "converged"
    /\ Len(ops) >= 1
    /\ Len(ops) < Len(heap)

\* C8: no step of any pass makes the chain longer, whatever the predicates
\* answer.
LengthNeverGrows == [][Len(ops') <= Len(ops)]_vars

\* a returned OptimizeOpVec call that shortened the chain in several rounds
LengthNeverGrowsWitness ==
    /\ Returned
    /\ passes >= 2
    /\ finalSize < originalSize
    /\ Len(ops) = finalSize

\* C9: a nested chain A1..An An'..A1' (Scenario A is one) is empty when the
\* call, of RemoveInverseOps alone or of OptimizeOpVec, has returned.
NestedChainVanishes == (Returned /\ Nested(heap)) => ops = << >>

\* Scenario A after the test's single RemoveInverseOps call
ScenarioAWitness ==
    /\ heap = ScenarioA
    /\ Returned
    /\ ret = "test"
    /\ inverseops = 2
    /\ ops = << >>

\* C10: Scenario B is left with its fifth entry alone when the call has
\* returned.
ScenarioBKeepsLast == (Returned /\ heap = ScenarioB) => ops = << 5 >>

\* Scenario B after the test's single RemoveInverseOps call
ScenarioBWitness ==
    /\ heap = ScenarioB
    /\ Returned
    /\ ret = "test"
    /\ inverseops = 2
    /\ Len(ops) = 1

\* an OptimizeOpVec call is running or has returned (not the test's call)
Optimizing == calls >= 1 /\ ret # "test"

\* the operations of a chain that are not no-ops, in order
KeepOp(p) == ~NoOp(heap[p])
WithoutNoOps(s) == SelectSeq(s, KeepOp)

\* no operation of the chain is a no-op, no adjacent pair cancels
NothingEliminable(s) ==
    /\ \A i \in 1..Len(s) : ~NoOp(heap[s[i]])
    /\ \A i \in 1..(Len(s) - 1) :
          ~(SameType(heap[s[i]], heap[s[i + 1]]) /\ Inv(heap[s[i]], heap[s[i + 1]]))

\* C11: OptimizeOpVec called with an empty chain has returned at once: no
\* round was started, nothing was logged (debug logging on or off), and the
\* chain is empty.
EmptyChainReturnsAtOnce ==
    (calls = 1 /\ ret # "test" /\ entry = << >>) =>
        /\ pc = "top"
        /\ exit = "empty"
        /\ rounds = 0
        /\ log = << >>
        /\ ops = << >>

\* the call on an empty chain has returned, with debug logging on
EmptyChainWitness ==
    /\ Returned
    /\ ret # "test"
    /\ entry = << >>
    /\ debug
    /\ exit = "empty"

\* C12: with fixed predicates, when RemoveNoOps has returned no operation of
\* the chain is a no-op; in the first round, where its input is the chain the
\* call was given, the chain is the input without its no-ops, in order, and
\* the count returned is the number of operations erased.
RemoveNoOpsContract ==
    (pc = "RemoveInverseOps" /\ ret = "OptimizeOpVec" /\ firstindex = 0 /\ count = 0) =>
        /\ \A i \in 1..Len(ops) : ~NoOp(heap[ops[i]])
        /\ (rounds = 1 =>
               /\ ops = WithoutNoOps(entry)
               /\ noops = Len(entry) - Len(ops))

\* RemoveNoOps has just returned: it erased two operations and kept two
RemoveNoOpsWitness ==
    /\ pc = "RemoveInverseOps"
    /\ ret = "OptimizeOpVec"
    /\ firstindex = 0
    /\ count = 0
    /\ rounds = 1
    /\ noops = 2
    /\ Len(ops) = 2

\* C13: with fixed predicates, OptimizeOpVec on a non-empty chain with nothing
\* to eliminate keeps the chain as it is, runs one round and reports no
\* removal.
CleanChainUntouched ==
    (Optimizing /\ entry # << >> /\ NothingEliminable(entry)) =>
        /\ ops = entry
        /\ rounds <= 1
        /\ passes = 0
        /\ total_noops = 0
        /\ total_inverseops = 0
        /\ (pc = "top" =>
               /\ rounds = 1
               /\ exit = "converged"
               /\ noops = 0
               /\ inverseops = 0
               /\ finalSize = originalSize)

\* the first call, on a chain of three operations with nothing to eliminate,
\* has returned
CleanChainWitness ==
    /\ Optimizing
    /\ pc = "top"
    /\ calls = 1
    /\ Len(entry) = 3
    /\ NothingEliminable(entry)
    /\ exit = "converged"

\* a step of RemoveInverseOps that erases
ErasesPair == pc = "RemoveInverseOps" /\ ops' # ops

\* the step erases exactly the two entries at the offsets i and i+1
ErasedAt(i) == ops' = Erase(ops, i, i + 2)

\* C14, as claimed: every pair erased by RemoveInverseOps is adjacent, of the
\* same type, and each operation is the inverse of the other in both
\* directions, also with an asymmetric isInverse.
ErasedPairsMutuallyInverse ==
    [][ErasesPair =>
          \E i \in 0..(Len(ops) - 2) :
             /\ ErasedAt(i)
             /\ SameType(heap[ops[i + 1]], heap[ops[i + 2]])
             /\ Inv(heap[ops[i + 1]], heap[ops[i + 2]])
             /\ Inv(heap[ops[i + 2]], heap[ops[i + 1]])]_vars

\* C14, amended: every pair erased by RemoveInverseOps is adjacent (the
\* entries at the cursor and after it), of the same type, and the first
\* answered isInverse for the second; the other direction is not asked.
ErasedPairsAdjacentInverse ==
    [][ErasesPair =>
          /\ firstindex + 2 <= Len(ops)
          /\ ErasedAt(firstindex)
          /\ SameType(heap[ops[firstindex + 1]], heap[ops[firstindex + 2]])
          /\ Inv(heap[ops[firstindex + 1]], heap[ops[firstindex + 2]])]_vars

\* a pair was erased under an isInverse that holds in one direction only
ErasedPairsWitness ==
    /\ Returned
    /\ ret = "test"
    /\ inverseops >= 1
    /\ pred.kind = "table"
    /\ << ExponentFwd, ExponentInv >> \in pred.inv
    /\ << ExponentInv, ExponentFwd >> \notin pred.inv
    /\ heap = << ExponentFwd, ExponentInv >>

\* C15: the cursor of RemoveInverseOps is never negative; when the loop body
\* is entered the cursor and its successor index the chain; the cursor
\* becomes max(0, firstindex-1) after a removal and firstindex+1 otherwise.
CursorSafe ==
    /\ [](firstindex >= 0)
    /\ []((pc = "RemoveInverseOps" /\ InverseGuard) => firstindex + 1 < Len(ops))
    /\ [][(pc = "RemoveInverseOps" /\ pc' = "RemoveInverseOps") =>
             IF ops' # ops
             THEN firstindex' = (IF firstindex - 1 > 0 THEN firstindex - 1 ELSE 0)
             ELSE firstindex' = firstindex + 1]_vars

\* inside a pass that stepped back to 0 and then went forward again
CursorWitness ==
    /\ pc = "RemoveInverseOps"
    /\ count >= 2
    /\ firstindex = 2
    /\ InverseGuard

\* a chain of 0 or 1 elements on entry of RemoveInverseOps
ShortOnEntry ==
    pc = "RemoveInverseOps" /\ Len(ops) <= 1 /\ count = 0 /\ firstindex = 0

\* C16: entered with a chain of 0 or 1 elements, RemoveInverseOps finds its
\* guard false (size-1 wraps for size 0 and is -1 as an int) and returns 0 in
\* its next step, without touching the chain.
ShortChainReturnsZero ==
    /\ [](ShortOnEntry => ~InverseGuard)
    /\ [][ShortOnEntry =>
             /\ pc' \in { "roundend", "top" }
             /\ inverseops' = 0
             /\ ops' = ops]_vars

\* RemoveNoOps erased the whole chain and RemoveInverseOps returned 0 on it
ShortChainWitness ==
    /\ pc = "roundend"
    /\ ops = << >>
    /\ noops >= 2
    /\ inverseops = 0

\* C17: a round starts with RemoveNoOps, and RemoveInverseOps starts only
\* when RemoveNoOps has reached the end of the chain; at the end of a round
\* the scheduler stops if both passes returned 0 and goes on otherwise; it
\* stops for another reason only when the rounds have reached the bound.
RoundProtocol ==
    [][/\ (pc = "loop" /\ pc' # "finish") => pc' = "RemoveNoOps"
       /\ (pc # "RemoveInverseOps" /\ pc' = "RemoveInverseOps"
              /\ ret' = "OptimizeOpVec") =>
             (pc = "RemoveNoOps" /\ iter = Len(ops))
       /\ pc = "roundend" =>
             IF noops = 0 /\ inverseops = 0
             THEN pc' = "finish" /\ exit' = "converged"
             ELSE pc' = "loop"
       /\ (pc # "finish" /\ pc' = "finish") =>
             \/ pc = "roundend"
             \/ pc = "loop" /\ rounds >= MAX_OPTIMIZATION_PASSES]_vars

\* a call that stopped at its fourth round, after three rounds that removed
RoundProtocolWitness ==
    /\ Returned
    /\ Optimizing
    /\ exit = "converged"
    /\ rounds = 4
    /\ passes = 3

\* C18: when the scheduler loop ended because a round removed nothing, the
\* "max number of passes" diagnostic has not been logged.
ConvergedIsNotLogged == (Returned /\ exit = "converged") => ~Logged("maxpasses")

\* C19: with fixed predicates, lawful or not, an OptimizeOpVec call has at
\* most one round that removes anything: a second round removes nothing, the
\* pass counter stays at most 1 and the bound is never reached.
OneProductiveRound ==
    Optimizing =>
        /\ passes <= 1
        /\ rounds <= 2
        /\ exit # "bound"
        /\ (rounds = 2 =>
               /\ count = 0
               /\ (pc # "RemoveNoOps" => noops = 0)
               /\ (pc \in { "roundend", "finish", "top" } => inverseops = 0))

\* a call under an always-true isInverse that removed in its first round and
\* converged in its second
OneProductiveRoundWitness ==
    /\ Optimizing
    /\ pc = "top"
    /\ calls = 1
    /\ pred.kind = "table"
    /\ pred.inv = TableOps \X TableOps
    /\ exit = "converged"
    /\ rounds = 2
    /\ passes = 1
    /\ Len(entry) >= 4

\* what the running OptimizeOpVec call has counted so far, pending counts of
\* the round included
Counted ==
    CASE pc = "RemoveNoOps" -> total_noops + count + 2 * total_inverseops
      [] pc = "RemoveInverseOps" ->
             total_noops + noops + 2 * (total_inverseops + count)
      [] pc = "roundend" ->
             total_noops + noops + 2 * (total_inverseops + inverseops)
      [] OTHER -> total_noops + 2 * total_inverseops

\* C20: whatever the predicates answer, the chain is shorter than on entry by
\* the no-ops counted plus twice the pairs counted, at every step: hence each
\* RemoveNoOps call shortens it by its count, each RemoveInverseOps call by
\* twice its count, and at the loop's exit
\* originalSize - finalSize = total_noops + 2 * total_inverseops.
RemovalAccounting ==
    /\ (ret = "test" /\ pc = "RemoveInverseOps") =>
           Len(entry) - Len(ops) = 2 * count
    /\ (ret = "test" /\ pc = "top") =>
           Len(entry) - Len(ops) = 2 * inverseops
    /\ (Optimizing /\ pc # "top") => originalSize - Len(ops) = Counted
    /\ (Optimizing /\ pc = "top" /\ exit \in { "converged", "bound" }) =>
           originalSize - finalSize = total_noops + 2 * total_inverseops

\* a call that removed no-ops and pairs has logged its summary
RemovalAccountingWitness ==
    /\ Optimizing
    /\ pc = "top"
    /\ debug
    /\ Logged("summary")
    /\ total_noops >= 1
    /\ total_inverseops >= 2

====
